---- MODULE Spec2Model ----
(***************************************************************************)
(* Model of the data-feeding pipeline of elmo/data/dataset.py:             *)
(*   _get_batch              the streaming batch assembler (a generator)   *)
(*   LMDataset               shard rotation, shard loading, get_sentence   *)
(*   BidirectionalLMDataset  the zip of a forward and a backward assembler *)
(* Python indices are kept 0-based for the numpy arrays (functions over    *)
(* 0..n-1); Python lists are TLA+ sequences, sliced through PySlice.       *)
(***************************************************************************)
EXTENDS Integers, Sequences, FiniteSets, TLC

VARIABLES
    batch_size,      \* argument of iter_batches / _get_batch
    num_steps,       \* argument of iter_batches / _get_batch
    use_chars,       \* max_word_length is not None (vocab has encode_chars)
    source,          \* kind of sentence generator handed to _get_batch, per side
    gen,             \* the plain finite generator: [count, done]
    files,           \* the file system: shard name -> lines (a line is a list of words)
    lm,              \* the LMDataset object of each side (its attributes)
    pc,              \* position of each _get_batch generator frame
    err,             \* exception that left each _get_batch frame ("none" if none)
    cur_stream,      \* _get_batch local: lane -> None or [tok, chr] (+ history tags)
    no_more_data,    \* _get_batch local
    inputs,          \* _get_batch local: int32[batch_size, num_steps]
    char_inputs,     \* _get_batch local: None or rows of max_word_length ints
    targets,         \* _get_batch local: int32[batch_size, num_steps]
    lane,            \* _get_batch local: the for-loop variable i
    cur_pos,         \* _get_batch local
    batches,         \* history: the batches each assembler has yielded, in order
    origin,          \* history: for each cell of the batch in progress, the pull and
                     \*          the offset in the pulled sentence it was copied from
    origins,         \* history: origin of every yielded batch
    pulls,           \* history: every sentence pulled from the source, in pull order
    zip_pc,          \* position of the consumer loop (iter_batches)
    merged           \* history: the records yielded by BidirectionalLMDataset.iter_batches

vars == <<batch_size, num_steps, use_chars, source, gen, files, lm, pc, err,
          cur_stream, no_more_data, inputs, char_inputs, targets, lane, cur_pos,
          batches, origin, origins, pulls, zip_pc, merged>>

cfgVars == <<batch_size, num_steps, use_chars, source, files>>
frameVars == <<cur_stream, no_more_data, inputs, char_inputs, targets, lane, cur_pos, origin>>

(***************************************************************************)
(* Bounds of the model.                                                    *)
(***************************************************************************)
MaxBatchSize == 2     \* batch_size ranges over 1..MaxBatchSize
MaxNumSteps == 2      \* num_steps ranges over 1..MaxNumSteps
MaxLen == 3           \* a sentence encodes to 0..MaxLen tokens
MaxPulls == 4         \* sentences a source hands out before the model stops pulling
MaxBatches == 3       \* batches an assembler yields before the model stops resuming it
max_word_length == 2  \* vocab.max_word_length, the width of a character row

Sides == {"forward", "backward"}
None == "None"

\* cur_stream[i] = None (the lane has not pulled a sentence yet)
NoStream == [none |-> TRUE, tok |-> <<>>, chr |-> None, sid |-> 0, off |-> 0]

Min(a, b) == IF a < b THEN a ELSE b
Max(a, b) == IF a > b THEN a ELSE b

(***************************************************************************)
(* Python list slicing s[a:b] and numpy slice assignment row[a:b] = val.   *)
(***************************************************************************)
\* a slice bound, normalised against a length as Python does
PyIdx(x, n) == IF x < 0 THEN Max(x + n, 0) ELSE Min(x, n)

\* s[a:b] of a list
PySlice(s, a, b) ==
    LET lo == PyIdx(a, Len(s))
        hi == PyIdx(b, Len(s))
    IN  IF hi <= lo THEN <<>> ELSE SubSeq(s, lo + 1, hi)

\* s[a:] of a list
PyTail(s, a) == PySlice(s, a, Len(s))

\* number of cells of row[a:b], a row of n cells
SliceLen(n, a, b) == Max(PyIdx(b, n) - PyIdx(a, n), 0)

\* numpy accepts row[a:b] = val iff val broadcasts to the slice's shape
Broadcasts(n, a, b, val) == Len(val) = SliceLen(n, a, b) \/ Len(val) = 1

\* row[a:b] = val, for a val that broadcasts
AssignSlice(row, n, a, b, val) ==
    LET lo == PyIdx(a, n)
        hi == PyIdx(b, n)
    IN  [t \in 0..(n - 1) |->
            IF lo <= t /\ t < hi
            THEN (IF Len(val) = 1 THEN val[1] ELSE val[t - lo + 1])
            ELSE row[t]]

(***************************************************************************)
(* The vocabulary adapter (external): a word is its own token id, no       *)
(* boundary tokens are added; a character row repeats the word's id.       *)
(***************************************************************************)
encode(sentence, reverse) == sentence

CharRow(w) == [j \in 1..max_word_length |-> w]
ZeroRow == [j \in 1..max_word_length |-> 0]
encode_chars(sentence, reverse) == [k \in 1..Len(sentence) |-> CharRow(sentence[k])]


(***************************************************************************)
(* _get_batch: the computations of one iteration of the fill loop.         *)
(***************************************************************************)
\* line 25 with "<= 0": a lane left with one token is drained again, not refilled
NeedsPull_EmptyOnly(st) == st.none \/ Len(st.tok) <= 0

\* line 25: the lane must pull a sentence before it can be drained further
NeedsPull(st) == st.none \/ Len(st.tok) <= 1

\* line 32 without the "- 1": the last token of a sentence counted as an input
HowMany_NoShift(tok, n, cp) == Min(Len(tok), n - cp)

\* line 32
HowMany(tok, n, cp) == Min(Len(tok) - 1, n - cp)

\* line 35: cur_stream[i][0][:how_many]
InputsVal(tok, how_many) == PySlice(tok, 0, how_many)

\* line 39 without the offset: targets copied from the same tokens as inputs
TargetsVal_NoShift(tok, how_many) == PySlice(tok, 0, how_many)

\* line 39: cur_stream[i][0][1:how_many+1]
TargetsVal(tok, how_many) == PySlice(tok, 1, how_many + 1)

\* lines 43, 45: cur_stream[i][k] = cur_stream[i][k][how_many:]
Remainder(s, how_many) == PyTail(s, how_many)

\* the dict X of lines 52-53
BatchRecord(inp, chr, tgt) ==
    [token_ids |-> inp, tokens_characters |-> chr, next_token_id |-> tgt]

ZeroMatrix == [i \in 0..(batch_size - 1) |-> [t \in 0..(num_steps - 1) |-> 0]]
ZeroChars ==
    IF use_chars
    THEN [i \in 0..(batch_size - 1) |-> [t \in 0..(num_steps - 1) |-> ZeroRow]]
    ELSE None
NoOrigin == [i \in 0..(batch_size - 1) |-> [t \in 0..(num_steps - 1) |-> <<0, 0>>]]

(***************************************************************************)
(* _get_batch: the generator frame of side s.                              *)
(*   pc = "start"  created, not yet run       "while"  at line 24          *)
(*        "check"  at line 47                 "yield"  suspended, line 55  *)
(*        "done"   returned                   "error"  left by an exception*)
(***************************************************************************)
Suspended(s) == pc[s] \in {"start", "yield"}

\* next() on the frame: lines 11-12 on the first call, then lines 15-23
ResumeFrame(s) ==
    /\ Suspended(s)
    /\ pc' = [pc EXCEPT ![s] = "while"]
    /\ cur_stream' = IF pc[s] = "start"
                     THEN [cur_stream EXCEPT ![s] = [i \in 0..(batch_size - 1) |-> NoStream]]
                     ELSE cur_stream
    /\ no_more_data' = IF pc[s] = "start"
                       THEN [no_more_data EXCEPT ![s] = FALSE]
                       ELSE no_more_data
    /\ inputs' = [inputs EXCEPT ![s] = ZeroMatrix]
    /\ char_inputs' = [char_inputs EXCEPT ![s] = ZeroChars]
    /\ targets' = [targets EXCEPT ![s] = ZeroMatrix]
    /\ origin' = [origin EXCEPT ![s] = NoOrigin]
    /\ lane' = [lane EXCEPT ![s] = 0]
    /\ cur_pos' = [cur_pos EXCEPT ![s] = 0]

\* leaving the while loop of lane i (its condition failed, or break): the for
\* loop takes the next lane (line 23) or ends (line 47)
AdvanceLane(s) ==
    IF lane[s] + 1 < batch_size
    THEN /\ lane' = [lane EXCEPT ![s] = lane[s] + 1]
         /\ cur_pos' = [cur_pos EXCEPT ![s] = 0]
         /\ pc' = [pc EXCEPT ![s] = "while"]
    ELSE /\ pc' = [pc EXCEPT ![s] = "check"]
         /\ UNCHANGED <<lane, cur_pos>>

\* lines 27 and 43 storing into every lane: one sentence shared by all lanes
StoreStream_EveryLane(s, i, st) ==
    [cur_stream EXCEPT ![s] = [j \in DOMAIN @ |-> st]]

\* lines 27 and 43: cur_stream[i] is replaced, the other lanes are left alone
StoreStream(s, i, st) ==
    [cur_stream EXCEPT ![s][i] = st]

\* lines 32-45 on the lane's stream st (the one just pulled, or the remainder)
FillLane(s, st) ==
    LET i == lane[s]
        cp == cur_pos[s]
        how_many == HowMany(st.tok, num_steps, cp)
        next_pos == cp + how_many
        in_val == InputsVal(st.tok, how_many)
        ch_val == IF use_chars THEN InputsVal(st.chr, how_many) ELSE <<>>
        tg_val == TargetsVal(st.tok, how_many)
        og_val == [k \in 1..Len(in_val) |-> <<st.sid, st.off + k>>]
        rest == Remainder(st.tok, how_many)
        fits == /\ Broadcasts(num_steps, cp, next_pos, in_val)
                /\ use_chars => Broadcasts(num_steps, cp, next_pos, ch_val)
                /\ Broadcasts(num_steps, cp, next_pos, tg_val)
    IN  IF fits
        THEN /\ inputs' = [inputs EXCEPT ![s][i] =
                              AssignSlice(@, num_steps, cp, next_pos, in_val)]
             /\ char_inputs' = IF use_chars
                               THEN [char_inputs EXCEPT ![s][i] =
                                        AssignSlice(@, num_steps, cp, next_pos, ch_val)]
                               ELSE char_inputs
             /\ targets' = [targets EXCEPT ![s][i] =
                               AssignSlice(@, num_steps, cp, next_pos, tg_val)]
             /\ origin' = [origin EXCEPT ![s][i] =
                              AssignSlice(@, num_steps, cp, next_pos, og_val)]
             /\ cur_pos' = [cur_pos EXCEPT ![s] = next_pos]
             /\ cur_stream' = StoreStream(s, i,
                                  [none |-> FALSE,
                                   tok |-> rest,
                                   chr |-> IF use_chars THEN Remainder(st.chr, how_many)
                                           ELSE None,
                                   sid |-> st.sid,
                                   off |-> st.off + Len(st.tok) - Len(rest)])
             /\ UNCHANGED <<pc, err, lane>>
        ELSE \* numpy: ValueError, could not broadcast input array
             /\ cur_stream' = StoreStream(s, i, st)
             /\ pc' = [pc EXCEPT ![s] = "error"]
             /\ err' = [err EXCEPT ![s] = "ValueError"]
             /\ UNCHANGED <<inputs, char_inputs, targets, origin, cur_pos, lane>>

\* the stream a pulled sentence becomes (line 27), tagged with its pull number
Pulled(s, sent) ==
    [none |-> FALSE, tok |-> sent.tok, chr |-> sent.chr,
     sid |-> Len(pulls[s]) + 1, off |-> 0]

RecordPull(s, sent) ==
    pulls' = [pulls EXCEPT ![s] = Append(@, [lane |-> lane[s], tok |-> sent.tok])]

\* line 24 false: the lane's row is full
WhileExit(s) ==
    /\ pc[s] = "while"
    /\ ~(cur_pos[s] < num_steps)
    /\ AdvanceLane(s)
    /\ UNCHANGED <<cfgVars, gen, lm, err, cur_stream, no_more_data, inputs, char_inputs,
                   targets, batches, origin, origins, pulls, zip_pc, merged>>

\* lines 24-45 when the lane still holds more than one token: no pull
FillFromRemainder(s) ==
    /\ pc[s] = "while"
    /\ cur_pos[s] < num_steps
    /\ ~NeedsPull(cur_stream[s][lane[s]])
    /\ FillLane(s, cur_stream[s][lane[s]])
    /\ UNCHANGED <<cfgVars, gen, lm, no_more_data, batches, origins, pulls, zip_pc, merged>>

\* line 47 read as "always false": the flag is never honoured
Incomplete_Never(s) == FALSE

\* line 47: the batch in progress is incomplete
Incomplete(s) == no_more_data[s]

\* lines 47-55: drop the incomplete batch and return, or yield the batch
EndBatch(s) ==
    /\ pc[s] = "check"
    /\ IF Incomplete(s)
       THEN /\ pc' = [pc EXCEPT ![s] = "done"]
            /\ UNCHANGED <<batches, origins>>
       ELSE /\ pc' = [pc EXCEPT ![s] = "yield"]
            /\ batches' = [batches EXCEPT ![s] =
                              Append(@, BatchRecord(inputs[s], char_inputs[s], targets[s]))]
            /\ origins' = [origins EXCEPT ![s] = Append(@, origin[s])]
    /\ UNCHANGED <<cfgVars, gen, lm, err, frameVars, pulls, zip_pc, merged>>

(***************************************************************************)
(* LMDataset.  The object is a record of its attributes; loads and refills *)
(* are history: the shards loaded, in order, and the number of bag refills.*)
(* exc is the exception the last call on the object raised ("none").       *)
(***************************************************************************)
NoDataset ==
    [status |-> "none", exc |-> "none", test |-> FALSE, shuffle_on_load |-> FALSE,
     reverse |-> FALSE, all_shards |-> <<>>, shards_to_choose |-> <<>>,
     ids |-> <<>>, i |-> 0, nids |-> 0, loads |-> <<>>, refills |-> 0]

\* the orders random.shuffle can leave n items in
PermsOf(n) == {p \in [1..n -> 1..n] : \A a, b \in 1..n : a # b => p[a] # p[b]}
Identity(n) == [k \in 1..n |-> k]
Shuffled(s, p) == [k \in 1..Len(s) |-> s[p[k]]]

\* list.pop(0) in place of list.pop(): the first item is taken
PopItem_First(s) == s[1]

\* list.pop(): the last item and the list without it
PopItem(s) == s[Len(s)]
PopRest(s) == SubSeq(s, 1, Len(s) - 1)

\* glob.glob(filepattern): the shard names, in the file system's order
glob == [k \in 1..Len(files) |-> k]

\* lines 107-109 without line 108: the words are split and joined, not reversed
Reverse_WordsInPlace(s) == s

\* lines 107-109: the words of the line, last word first
Reverse(s) == [k \in 1..Len(s) |-> s[Len(s) + 1 - k]]

\* lines 78-83 with the emptiness test of line 79 dropped: the bag is refilled
\* on every call
choose_random_shard_AlwaysRefill(D, bag) ==
    LET to_choose == Shuffled(D.all_shards, bag)
    IN  IF to_choose = <<>>
        THEN [D |-> [D EXCEPT !.shards_to_choose = to_choose, !.refills = @ + 1,
                              !.exc = "IndexError"],
              shard_name |-> 0]
        ELSE [D |-> [D EXCEPT !.shards_to_choose = SubSeq(to_choose, 1, Len(to_choose) - 1),
                              !.refills = @ + 1, !.exc = "none"],
              shard_name |-> to_choose[Len(to_choose)]]

\* lines 78-83; bag is the order the shuffle leaves a refilled bag in
choose_random_shard(D, bag) ==
    LET refill == Len(D.shards_to_choose) = 0
        to_choose == IF refill THEN Shuffled(D.all_shards, bag) ELSE D.shards_to_choose
    IN  IF to_choose = <<>>
        THEN [D |-> [D EXCEPT !.shards_to_choose = to_choose,
                              !.refills = IF refill THEN @ + 1 ELSE @,
                              !.exc = "IndexError"],
              shard_name |-> 0]
        ELSE [D |-> [D EXCEPT !.shards_to_choose = PopRest(to_choose),
                              !.refills = IF refill THEN @ + 1 ELSE @,
                              !.exc = "none"],
              shard_name |-> PopItem(to_choose)]

\* lines 99-121; order is the order shuffle_on_load leaves the sentences in;
\* handed records the arguments of the call of vocab.encode at line 115
load_shard(D, shard_name, order) ==
    LET lines == files[shard_name]
        oriented == IF D.reverse THEN [k \in 1..Len(lines) |-> Reverse(lines[k])]
                    ELSE lines
        sentences == IF D.shuffle_on_load THEN Shuffled(oriented, order) ELSE oriented
    IN  [k \in 1..Len(sentences) |->
            [tok |-> encode(sentences[k], D.reverse),
             chr |-> IF use_chars THEN encode_chars(sentences[k], D.reverse) ELSE None,
             handed |-> [sentence |-> sentences[k], reverse |-> D.reverse]]]

\* lines 85-97; the result's D.exc tells whether the call raised
load_random_shard(D, bag, order) ==
    LET chosen ==
            IF D.test
            THEN (IF Len(D.all_shards) = 0
                  THEN [D |-> [D EXCEPT !.exc = "StopIteration"], shard_name |-> 0]
                  ELSE [D |-> [D EXCEPT !.all_shards = PopRest(@), !.exc = "none"],
                        shard_name |-> PopItem(D.all_shards)])
            ELSE choose_random_shard(D, bag)
    IN  IF chosen.D.exc # "none"
        THEN [D |-> chosen.D, ids |-> <<>>]
        ELSE LET ids == load_shard(D, chosen.shard_name, order)
             IN  [D |-> [chosen.D EXCEPT !.i = 0, !.nids = Len(ids),
                                         !.loads = Append(@, chosen.shard_name)],
                  ids |-> ids]

\* the shuffles the next _load_random_shard of D can draw
BagOrders(D) ==
    IF ~D.test /\ Len(D.shards_to_choose) = 0 THEN PermsOf(Len(D.all_shards))
    ELSE {Identity(Len(D.all_shards))}

\* the shard the next _load_random_shard of D picks when the bag shuffle gives
\* bag (0 when it raises instead)
ShardPicked(D, bag) ==
    IF D.test
    THEN (IF Len(D.all_shards) = 0 THEN 0 ELSE PopItem(D.all_shards))
    ELSE choose_random_shard(D, bag).shard_name

SentenceOrders(D, bag) ==
    LET name == ShardPicked(D, bag)
    IN  IF D.shuffle_on_load /\ name # 0 THEN PermsOf(Len(files[name])) ELSE {<<>>}

\* the pairs <<bag, order>> of random draws one _load_random_shard of D can make
LoadDraws(D) ==
    UNION {{<<bag, order>> : order \in SentenceOrders(D, bag)} : bag \in BagOrders(D)}

\* an exception leaving a generator body: a StopIteration raised inside it
\* reaches the caller of next() as a RuntimeError
LeavesGenerator(exc) == IF exc = "StopIteration" THEN "RuntimeError" ELSE exc

\* lines 64-75 without line 75: no shard is loaded by the constructor, the
\* first load is left to get_sentence
Constructed_NoFirstLoad(test, shuffle_on_load, reverse, bag, order) ==
    [NoDataset EXCEPT !.all_shards = glob, !.test = test, !.status = "ready",
                      !.shuffle_on_load = shuffle_on_load, !.reverse = reverse]

\* lines 64-75: the object LMDataset(filepattern, vocab, test, shuffle_on_load,
\* reverse) leaves behind; status "failed" when the constructor raised
Constructed(test, shuffle_on_load, reverse, bag, order) ==
    LET D0 == [NoDataset EXCEPT !.all_shards = glob, !.test = test,
                                !.shuffle_on_load = shuffle_on_load, !.reverse = reverse]
        r == load_random_shard(D0, bag, order)
    IN  IF r.D.exc # "none"
        THEN [r.D EXCEPT !.status = "failed"]
        ELSE [r.D EXCEPT !.status = "ready", !.ids = r.ids]

\* line 125 one sentence early: the last sentence of a shard is never reached
CursorExhausted_OneEarly(D) == D.i + 1 >= D.nids

\* line 125: every sentence of the loaded shard has been handed out
CursorExhausted(D) == D.i = D.nids

\* lines 123-129: one next() on get_sentence(): the object afterwards, the
\* sentence returned and the exception raised to the caller of next()
get_sentence(D, bag, order) ==
    LET r == IF CursorExhausted(D) THEN load_random_shard(D, bag, order)
             ELSE [D |-> [D EXCEPT !.exc = "none"], ids |-> D.ids]
        D1 == IF r.D.exc = "none" THEN [r.D EXCEPT !.ids = r.ids] ELSE r.D
    IN  IF r.D.exc # "none"
        THEN [D |-> D1, ret |-> None, raised |-> LeavesGenerator(r.D.exc)]
        ELSE IF ~(D1.i + 1 \in 1..Len(D1.ids))
        THEN [D |-> [D1 EXCEPT !.exc = "IndexError"], ret |-> None,
              raised |-> "IndexError"]
        ELSE [D |-> [D1 EXCEPT !.i = @ + 1], ret |-> D1.ids[D1.i + 1], raised |-> "none"]

(***************************************************************************)
(* A plain finite generator as the sentence source: it hands out at most   *)
(* MaxPulls sentences of 0..MaxLen tokens and then stops for good.  The    *)
(* k-th sentence holds the tokens k*(MaxLen+1)+1, k*(MaxLen+1)+2, ...      *)
(***************************************************************************)
GenSentence(k, len) ==
    LET tok == [p \in 1..len |-> k * (MaxLen + 1) + p]
    IN  [tok |-> tok, chr |-> IF use_chars THEN encode_chars(tok, FALSE) ELSE None]

\* lines 24-45 with next(generator) returning a sentence
PullSentence(s) ==
    /\ pc[s] = "while"
    /\ source[s] = "generator"
    /\ cur_pos[s] < num_steps
    /\ NeedsPull(cur_stream[s][lane[s]])
    /\ ~gen.done
    /\ gen.count < MaxPulls
    /\ \E len \in 0..MaxLen :
          LET sent == GenSentence(gen.count + 1, len)
          IN  /\ RecordPull(s, sent)
              /\ FillLane(s, Pulled(s, sent))
    /\ gen' = [gen EXCEPT !.count = @ + 1]
    /\ UNCHANGED <<cfgVars, lm, no_more_data, batches, origins, zip_pc, merged>>

\* lines 24-30 with next(generator) raising StopIteration
PullStop(s) ==
    /\ pc[s] = "while"
    /\ source[s] = "generator"
    /\ cur_pos[s] < num_steps
    /\ NeedsPull(cur_stream[s][lane[s]])
    /\ gen' = [gen EXCEPT !.done = TRUE]
    /\ no_more_data' = [no_more_data EXCEPT ![s] = TRUE]
    /\ AdvanceLane(s)
    /\ UNCHANGED <<cfgVars, lm, err, cur_stream, inputs, char_inputs, targets,
                   batches, origin, origins, pulls, zip_pc, merged>>

\* line 144: the dataset whose get_sentence() feeds the frame of side s; with
\* source "shared" the frame was made by a second iter_batches() call on the
\* dataset of side "forward"
DatasetOf(s) == IF source[s] = "shared" THEN "forward" ELSE s

\* line 123 with a cursor of its own for every sequence: the first next() of a
\* sequence starts from the top of the buffer
Self_RewoundAtStart(s) ==
    [lm[DatasetOf(s)] EXCEPT !.i = IF pulls[s] = <<>> THEN 0 ELSE @]

\* line 123: the object self that get_sentence() of side s reads and writes
Self(s) == lm[DatasetOf(s)]

\* lines 24-45 with next(generator) running get_sentence of the side's dataset:
\* a sentence comes back, or an exception that line 28 does not catch
PullFromDataset(s) ==
    /\ pc[s] = "while"
    /\ source[s] \in {"dataset", "shared"}
    /\ cur_pos[s] < num_steps
    /\ NeedsPull(cur_stream[s][lane[s]])
    /\ Len(pulls[s]) < MaxPulls
    /\ \E draw \in (IF CursorExhausted(Self(s)) THEN LoadDraws(Self(s)) ELSE {<<<<>>, <<>>>>}) :
          LET r == get_sentence(Self(s), draw[1], draw[2])
          IN  /\ lm' = [lm EXCEPT ![DatasetOf(s)] = r.D]
              /\ IF r.raised = "none"
                 THEN /\ RecordPull(s, r.ret)
                      /\ FillLane(s, Pulled(s, r.ret))
                 ELSE /\ pc' = [pc EXCEPT ![s] = "error"]
                      /\ err' = [err EXCEPT ![s] = r.raised]
                      /\ UNCHANGED <<frameVars, pulls>>
    /\ UNCHANGED <<cfgVars, gen, no_more_data, batches, origins, zip_pc, merged>>

\* LMDataset(filepattern, vocab, test, shuffle_on_load, reverse): lines 64-75
Construct(s, test, shuffle_on_load, reverse) ==
    /\ lm[s].status = "none"
    /\ \E draw \in LoadDraws([NoDataset EXCEPT !.all_shards = glob, !.test = test,
                                !.shuffle_on_load = shuffle_on_load]) :
          lm' = [lm EXCEPT ![s] =
                    Constructed(test, shuffle_on_load, reverse, draw[1], draw[2])]

\* the caller builds the single dataset it will iterate
ConstructDataset(s) ==
    /\ zip_pc = "single"
    /\ source[s] = "dataset"
    /\ \E test, shuffle_on_load, reverse \in BOOLEAN :
          Construct(s, test, shuffle_on_load, reverse)
    /\ UNCHANGED <<cfgVars, gen, pc, err, frameVars, batches, origins, pulls,
                   zip_pc, merged>>

\* the consumer of a single assembler asks for the next batch
NextBatch(s) ==
    /\ zip_pc = "single"
    /\ source[s] \in {"dataset", "shared"} => lm[DatasetOf(s)].status = "ready"
    /\ Len(batches[s]) < MaxBatches
    /\ ResumeFrame(s)
    /\ UNCHANGED <<cfgVars, gen, lm, err, batches, origins, pulls, zip_pc, merged>>

FrameInit ==
    /\ pc = [s \in Sides |-> "start"]
    /\ err = [s \in Sides |-> "none"]
    /\ cur_stream = [s \in Sides |-> <<>>]
    /\ no_more_data = [s \in Sides |-> FALSE]
    /\ inputs = [s \in Sides |-> <<>>]
    /\ char_inputs = [s \in Sides |-> <<>>]
    /\ targets = [s \in Sides |-> <<>>]
    /\ origin = [s \in Sides |-> <<>>]
    /\ lane = [s \in Sides |-> 0]
    /\ cur_pos = [s \in Sides |-> 0]
    /\ batches = [s \in Sides |-> <<>>]
    /\ origins = [s \in Sides |-> <<>>]
    /\ pulls = [s \in Sides |-> <<>>]
    /\ merged = <<>>

(***************************************************************************)
(* Spec: _get_batch over a plain finite generator.                         *)
(***************************************************************************)
Init ==
    /\ batch_size \in 1..MaxBatchSize
    /\ num_steps \in 1..MaxNumSteps
    /\ use_chars \in BOOLEAN
    /\ source = [s \in Sides |-> "generator"]
    /\ gen = [count |-> 0, done |-> FALSE]
    /\ files = <<>>
    /\ lm = [s \in Sides |-> NoDataset]
    /\ zip_pc = "single"
    /\ FrameInit

Next ==
    \/ NextBatch("forward")
    \/ FillFromRemainder("forward")
    \/ PullSentence("forward")
    \/ PullStop("forward")
    \/ WhileExit("forward")
    \/ EndBatch("forward")

Spec == Init /\ [][Next]_vars


(***************************************************************************)
(* Vocabulary of the claims.                                               *)
(***************************************************************************)
Lanes == 0..(batch_size - 1)
Steps == 0..(num_steps - 1)

\* the sentences pulled into lane i, in pull order
RECURSIVE LaneSentences(_, _)
LaneSentences(ps, i) ==
    IF ps = <<>> THEN <<>>
    ELSE (IF Head(ps).lane = i THEN <<Head(ps).tok>> ELSE <<>>)
         \o LaneSentences(Tail(ps), i)

\* the (token, next token) pairs of one sentence, in order
AdjacentPairs(tok) == [k \in 1..Max(Len(tok) - 1, 0) |-> <<tok[k], tok[k + 1]>>]

RECURSIVE PairsOfSentences(_)
PairsOfSentences(ss) ==
    IF ss = <<>> THEN <<>> ELSE AdjacentPairs(Head(ss)) \o PairsOfSentences(Tail(ss))

\* the (token_ids, next_token_id) cells of lane i over the yielded batches
RECURSIVE PairsOfBatches(_, _)
PairsOfBatches(bs, i) ==
    IF bs = <<>> THEN <<>>
    ELSE [k \in 1..num_steps |->
             <<Head(bs).token_ids[i][k - 1], Head(bs).next_token_id[i][k - 1]>>]
         \o PairsOfBatches(Tail(bs), i)

IsPrefix(a, b) == Len(a) <= Len(b) /\ a = SubSeq(b, 1, Len(a))

\* cell [i, t] of the k-th yielded batch of side s was copied from offset p of pull sid
CellFrom(s, k, i, t, sid, p) ==
    /\ sid \in 1..Len(pulls[s])
    /\ pulls[s][sid].lane = i
    /\ p >= 1 /\ p + 1 <= Len(pulls[s][sid].tok)
    /\ batches[s][k].token_ids[i][t] = pulls[s][sid].tok[p]
    /\ batches[s][k].next_token_id[i][t] = pulls[s][sid].tok[p + 1]

\* C1: in every yielded batch, next_token_id[i,t] is the token that follows
\* token_ids[i,t] in the sentence the cell was copied from, a sentence pulled into
\* lane i; and next_token_id[i,t] = token_ids[i,t+1] when t and t+1 were filled
\* from the same sentence.
C1_NextTokenShift ==
    \A k \in 1..Len(batches["forward"]) : \A i \in Lanes : \A t \in Steps :
        LET o == origins["forward"][k][i] IN
        /\ CellFrom("forward", k, i, t, o[t][1], o[t][2])
        /\ (t + 1 < num_steps /\ o[t + 1][1] = o[t][1])
              => batches["forward"][k].next_token_id[i][t]
                     = batches["forward"][k].token_ids[i][t + 1]

\* a yielded batch with two neighbouring cells from one sentence and two from
\* different sentences
C1_Witness ==
    /\ num_steps = 2
    /\ \E k \in 1..Len(batches["forward"]) : \E i, j \in Lanes :
          /\ origins["forward"][k][i][0][1] = origins["forward"][k][i][1][1]
          /\ origins["forward"][k][j][0][1] # origins["forward"][k][j][1][1]

\* C2: per lane, the cells of the yielded batches are, in order, a prefix of the
\* adjacent token pairs of the sentences pulled into the lane, in pull order:
\* nothing dropped, duplicated or reordered.
C2_LaneReconstructs ==
    \A i \in Lanes :
        IsPrefix(PairsOfBatches(batches["forward"], i),
                 PairsOfSentences(LaneSentences(pulls["forward"], i)))

C2_Witness ==
    /\ Len(batches["forward"]) >= 2
    /\ batch_size = 2
    /\ \A i \in Lanes : Len(LaneSentences(pulls["forward"], i)) >= 2


\* the claim of C2 restricted to runs in which no pulled sentence was empty
C2_HoldsWithoutEmptySentences ==
    (\A k \in 1..Len(pulls["forward"]) : pulls["forward"][k].tok # <<>>)
        => C2_LaneReconstructs

\* every cell of every yielded batch was written from a pulled sentence
AllCellsFilled(s) ==
    \A k \in 1..Len(origins[s]) : \A i \in Lanes : \A t \in Steps :
        origins[s][k][i][t][1] \in 1..Len(pulls[s])

\* C3: with a finite source no partially filled batch is yielded: every yielded
\* batch has every cell of every lane filled from a pulled sentence, and once the
\* source has been found exhausted the batch in progress is not yielded, no
\* further batch is yielded and the frame returns.
C3_NoPartialBatch ==
    /\ [](AllCellsFilled("forward")
          /\ (no_more_data["forward"] => pc["forward"] \in {"while", "check", "done"}))
    /\ [][no_more_data["forward"]
            => /\ batches'["forward"] = batches["forward"]
               /\ no_more_data'["forward"]
               /\ pc["forward"] = "check" => pc'["forward"] = "done"]_vars

\* the source ran dry while a later lane of a batch was being filled, after a
\* batch had been yielded; the batch in progress was dropped
C3_Witness ==
    /\ pc["forward"] = "done"
    /\ Len(batches["forward"]) >= 1
    /\ batch_size = 2
    /\ origin["forward"][0][0][1] > 0

\* C7: a sentence of exactly one token fills no cell of any yielded batch; pulling
\* it leaves the arrays and the write cursor as they were, and the lane's next
\* iteration pulls again.
C7_OneTokenSkipped ==
    /\ [](\A k \in 1..Len(origins["forward"]) : \A i \in Lanes : \A t \in Steps :
             LET sid == origins["forward"][k][i][t][1]
             IN  sid \in 1..Len(pulls["forward"]) => Len(pulls["forward"][sid].tok) # 1)
    /\ [][(/\ Len(pulls'["forward"]) = Len(pulls["forward"]) + 1
           /\ Len(pulls'["forward"][Len(pulls'["forward"])].tok) = 1)
            => /\ inputs' = inputs /\ targets' = targets /\ char_inputs' = char_inputs
               /\ cur_pos' = cur_pos /\ lane' = lane /\ pc' = pc
               /\ NeedsPull(cur_stream'["forward"][lane["forward"]])]_vars

\* a batch was yielded whose lane pulled a one-token sentence between two
\* sentences that filled cells
C7_Witness ==
    /\ Len(batches["forward"]) >= 1
    /\ \E a, b, c \in 1..Len(pulls["forward"]) :
          /\ a < b /\ b < c
          /\ Len(pulls["forward"][b].tok) = 1
          /\ \E i \in Lanes : \E t, u \in Steps :
                /\ origins["forward"][1][i][t][1] = a
                /\ origins["forward"][1][i][u][1] = c
                /\ pulls["forward"][b].lane = i


\* the scenario of C11: one lane, two steps, the source hands out a sentence of
\* three tokens and then one of two tokens
ScenarioABC ==
    /\ batch_size = 1 /\ num_steps = 2
    /\ Len(pulls["forward"]) >= 2
    /\ Len(pulls["forward"][1].tok) = 3
    /\ Len(pulls["forward"][2].tok) = 2

\* C11: for a source of [a,b,c] then [d,e], batch_size 1 and num_steps 2, the
\* first batch is token_ids [[a,b]], next_token_id [[b,c]], and the second batch
\* has token_ids[0,0] = d and next_token_id[0,0] = e, whatever follows [d,e].
C11_EndToEnd ==
    ScenarioABC =>
        LET abc == pulls["forward"][1].tok
            de == pulls["forward"][2].tok
            B == batches["forward"]
        IN  /\ Len(B) >= 1 =>
                 /\ B[1].token_ids[0] = (0 :> abc[1]) @@ (1 :> abc[2])
                 /\ B[1].next_token_id[0] = (0 :> abc[2]) @@ (1 :> abc[3])
            /\ Len(B) >= 2 =>
                 /\ B[2].token_ids[0][0] = de[1]
                 /\ B[2].next_token_id[0][0] = de[2]

\* the claim of C11 restricted to runs in which no pulled sentence was empty
C11_HoldsWithoutEmptySentences ==
    (\A k \in 1..Len(pulls["forward"]) : pulls["forward"][k].tok # <<>>)
        => C11_EndToEnd

\* both batches of the scenario have been yielded
C11_ScenarioReached == ScenarioABC /\ Len(batches["forward"]) >= 2

\* the index of the last sentence pulled into lane i (0 when there is none)
LastPullOf(s, i) ==
    LET mine == {k \in 1..Len(pulls[s]) : pulls[s][k].lane = i}
    IN  IF mine = {} THEN 0 ELSE CHOOSE k \in mine : \A j \in mine : j <= k

\* the tokens lane i still held when the k-th batch was yielded: those of the
\* sentence of its last cell from the target of that cell on
RemainderAfter(s, k, i) ==
    LET o == origins[s][k][i][num_steps - 1]
        full == pulls[s][o[1]].tok
    IN  SubSeq(full, o[2] + 1, Len(full))

\* just after a yield, every lane holds a non-empty suffix of the last sentence
\* pulled into it, starting at the target of the lane's last cell
RemainderIsSuffix(s) ==
    pc[s] = "yield" =>
        \A i \in Lanes :
            LET st == cur_stream[s][i] IN
            /\ ~st.none
            /\ st.tok # <<>>
            /\ st.sid = LastPullOf(s, i)
            /\ st.tok = RemainderAfter(s, Len(batches[s]), i)

\* C14: for consecutive batches k, k+1 and every lane i whose remainder after
\* batch k has more than one token, token_ids of batch k+1 at [i,0] equals
\* next_token_id of batch k at [i,num_steps-1]; and after every yielded batch each
\* lane's remainder is a non-empty suffix of the last sentence pulled into it.
C14_AdjacencyAcrossBatches ==
    /\ RemainderIsSuffix("forward")
    /\ \A k \in 1..(Len(batches["forward"]) - 1) : \A i \in Lanes :
          Len(RemainderAfter("forward", k, i)) > 1
              => batches["forward"][k + 1].token_ids[i][0]
                     = batches["forward"][k].next_token_id[i][num_steps - 1]

\* the claim of C14 restricted to runs in which no pulled sentence was empty
C14_HoldsWithoutEmptySentences ==
    (\A k \in 1..Len(pulls["forward"]) : pulls["forward"][k].tok # <<>>)
        => C14_AdjacencyAcrossBatches

\* two batches were yielded and a lane carried more than one token across
C14_CarriedOver ==
    /\ Len(batches["forward"]) >= 2
    /\ \E i \in Lanes : Len(RemainderAfter("forward", 1, i)) > 1
    /\ \A k \in 1..Len(pulls["forward"]) : pulls["forward"][k].tok # <<>>

\* C17: for every sentence source, zero-token sentences included, the write
\* cursor of the lane being filled stays in [0, num_steps], a fill step moves it
\* by how_many >= 0 and never back within a row, and a cell written once in a
\* batch is not written again.
C17_CursorNeverMovesBack ==
    /\ [](cur_pos["forward"] \in 0..num_steps)
    /\ [][(/\ pc["forward"] = "while" /\ pc'["forward"] = "while"
           /\ lane'["forward"] = lane["forward"])
            => /\ cur_pos'["forward"] >= cur_pos["forward"]
               /\ \A t \in Steps :
                     origin["forward"][lane["forward"]][t] # <<0, 0>>
                         => origin'["forward"][lane["forward"]][t]
                                = origin["forward"][lane["forward"]][t]]_vars

\* the state part of C17 in runs in which no pulled sentence was empty
C17_InRangeWithoutEmptySentences ==
    (\A k \in 1..Len(pulls["forward"]) : pulls["forward"][k].tok # <<>>)
        => cur_pos["forward"] \in 0..num_steps

\* the position in the source of the sentence that token v belongs to
SentenceOf(v) == v \div (MaxLen + 1)

\* every token held by lane i, in its stream or in its row of a yielded batch,
\* belongs to a sentence that was pulled into lane i
LaneOwnsItsTokens(s, i) ==
    /\ (cur_stream[s] # <<>> /\ ~cur_stream[s][i].none) =>
          LET st == cur_stream[s][i] IN
          \A p \in 1..Len(st.tok) :
              /\ SentenceOf(st.tok[p]) \in 1..Len(pulls[s])
              /\ pulls[s][SentenceOf(st.tok[p])].lane = i
    /\ \A k \in 1..Len(batches[s]) : \A t \in Steps :
          /\ SentenceOf(batches[s][k].token_ids[i][t]) \in 1..Len(pulls[s])
          /\ pulls[s][SentenceOf(batches[s][k].token_ids[i][t])].lane = i
          /\ SentenceOf(batches[s][k].next_token_id[i][t])
                 = SentenceOf(batches[s][k].token_ids[i][t])

\* C18: every sentence pulled from the shared source is assigned to exactly one
\* lane, and the sentences pulled by all lanes together are a prefix of the
\* source's sequence, in source order.
C18_PullsArePrefix ==
    /\ Len(pulls["forward"]) = gen.count
    /\ \A k \in 1..Len(pulls["forward"]) :
          /\ pulls["forward"][k].lane \in Lanes
          /\ pulls["forward"][k].tok
                 = GenSentence(k, Len(pulls["forward"][k].tok)).tok
    /\ \A i \in Lanes : LaneOwnsItsTokens("forward", i)

\* two lanes have each pulled sentences, a batch was yielded and more was pulled
C18_Witness ==
    /\ batch_size = 2
    /\ Len(batches["forward"]) >= 1
    /\ Len(pulls["forward"]) >= 3
    /\ \E a, b \in 1..Len(pulls["forward"]) :
          pulls["forward"][a].lane = 0 /\ pulls["forward"][b].lane = 1

(***************************************************************************)
(* SpecLM: LMDataset.iter_batches, the assembler over get_sentence().      *)
(* A shard file is a list of lines, a line a list of words; every word of  *)
(* the file system is distinct, so a token tells where it came from.  The  *)
(* vocabulary of a dataset has encode_chars (use_chars), as the character  *)
(* vocabulary of the language model does; the assembler without character  *)
(* inputs is covered by Spec.                                              *)
(***************************************************************************)
MaxShards == 2     \* the pattern matches 0..MaxShards files
MaxSents == 2      \* a shard holds 0..MaxSents lines

\* the word at position p of line k of shard f
Word(f, k, p) == ((f * (MaxSents + 1)) + k) * (MaxLen + 1) + p

\* the file systems: every choice of the number of shards, of lines per shard
\* and of words per line
FileShapes == UNION {[1..m -> 0..MaxLen] : m \in 0..MaxSents}
FileSystems ==
    UNION {{[f \in 1..n |-> [k \in 1..Len(shape[f]) |->
                               [p \in 1..shape[f][k] |-> Word(f, k, p)]]] :
              shape \in [1..n -> FileShapes]} : n \in 0..MaxShards}

InitLM ==
    /\ batch_size \in 1..MaxBatchSize
    /\ num_steps \in 1..MaxNumSteps
    /\ use_chars = TRUE
    /\ source = [s \in Sides |-> "dataset"]
    /\ gen = [count |-> 0, done |-> FALSE]
    /\ files \in FileSystems
    /\ lm = [s \in Sides |-> NoDataset]
    /\ zip_pc = "single"
    /\ FrameInit

NextLM ==
    \/ ConstructDataset("forward")
    \/ NextBatch("forward")
    \/ FillFromRemainder("forward")
    \/ PullFromDataset("forward")
    \/ WhileExit("forward")
    \/ EndBatch("forward")

SpecLM == InitLM /\ [][NextLM]_vars


\* C4: in test mode, when get_sentence is pulled after the last shard has been
\* consumed, the assembler sees a normal end of data: it sets no_more_data, no
\* exception leaves it, and it ends by returning.
C4_CleanEndOfData ==
    (/\ lm["forward"].status = "ready"
     /\ lm["forward"].test
     /\ lm["forward"].exc = "StopIteration")
        => /\ err["forward"] = "none"
           /\ no_more_data["forward"]
           /\ pc["forward"] \in {"while", "check", "done"}

\* the loads of epoch e (the e-th refill of the bag), n shards per epoch
EpochLoads(D, e, n) ==
    SubSeq(D.loads, (e - 1) * n + 1, Min(e * n, Len(D.loads)))

Distinct(s) == \A a, b \in 1..Len(s) : a # b => s[a] # s[b]
Range(s) == {s[k] : k \in 1..Len(s)}

\* the bag of a non-test dataset over n >= 1 shards is consistent with its loads
BagConsistent(D, n) ==
    /\ D.refills >= 1 /\ Len(D.loads) >= 1
    /\ Len(D.loads) + Len(D.shards_to_choose) = D.refills * n
    /\ \A e \in 1..D.refills : Distinct(EpochLoads(D, e, n))
    /\ Distinct(D.shards_to_choose)
    /\ Range(D.shards_to_choose) \cup Range(EpochLoads(D, D.refills, n))
           = Range(D.all_shards)
    /\ Range(D.shards_to_choose) \cap Range(EpochLoads(D, D.refills, n)) = {}

\* C5: in non-test mode with N >= 1 shards the bag is refilled only when empty,
\* and between two refills every shard is picked once: the loads of one epoch
\* are distinct, the bag holds exactly the shards the epoch has not loaded yet,
\* and the constructor's load is the first pick of the first epoch.
C5_ShuffleBag ==
    /\ [](lm["forward"].status # "none" /\ ~lm["forward"].test
              /\ Len(lm["forward"].all_shards) >= 1
            => BagConsistent(lm["forward"], Len(lm["forward"].all_shards)))
    /\ [][~lm["forward"].test /\ lm'["forward"].refills # lm["forward"].refills
            => /\ lm["forward"].shards_to_choose = <<>>
               /\ lm'["forward"].refills = lm["forward"].refills + 1]_vars

\* a second epoch has begun over two shards
C5_Witness ==
    /\ ~lm["forward"].test
    /\ Len(lm["forward"].all_shards) = 2
    /\ lm["forward"].refills >= 2
    /\ Len(lm["forward"].loads) >= 3

\* C6 as stated: in test mode the shards are loaded in the order glob
\* enumerated them.
C6_EnumerationOrder ==
    (lm["forward"].status # "none" /\ lm["forward"].test)
        => lm["forward"].loads = SubSeq(glob, 1, Len(lm["forward"].loads))

\* C6 amended: in test mode the shards are loaded in the reverse of the order in
\* which glob enumerated them (the last enumerated first), each at most once,
\* without refill, and the list of remaining shards only ever shrinks.
C6_ReverseEnumerationOrder ==
    /\ [](lm["forward"].status # "none" /\ lm["forward"].test
            => /\ lm["forward"].loads
                    = [k \in 1..Len(lm["forward"].loads) |-> glob[Len(glob) + 1 - k]]
               /\ lm["forward"].all_shards
                    = SubSeq(glob, 1, Len(glob) - Len(lm["forward"].loads))
               /\ lm["forward"].refills = 0
               /\ lm["forward"].shards_to_choose = <<>>)
    /\ [][lm["forward"].status # "none" /\ lm["forward"].test
            => Len(lm'["forward"].all_shards) <= Len(lm["forward"].all_shards)]_vars

\* both shards of a two-shard test dataset have been loaded
C6_Witness ==
    /\ lm["forward"].test
    /\ Len(glob) = 2
    /\ Len(lm["forward"].loads) = 2

\* C10: when the pattern matches no shard, the load made by the constructor
\* raises, in test mode and in non-test mode, and the dataset never yields a
\* sentence or a batch.
C10_EmptySourceFailsFast ==
    (Len(glob) = 0 /\ lm["forward"].status # "none")
        => /\ lm["forward"].status = "failed"
           /\ lm["forward"].exc
                = (IF lm["forward"].test THEN "StopIteration" ELSE "IndexError")
           /\ lm["forward"].loads = <<>>
           /\ pulls["forward"] = <<>>
           /\ batches["forward"] = <<>>
           /\ pc["forward"] = "start"

C10_Witness ==
    /\ Len(glob) = 0
    /\ lm["forward"].status = "failed"
    /\ ~lm["forward"].test


(***************************************************************************)
(* SpecBi: BidirectionalLMDataset.  zip_pc is the position of iter_batches:*)
(*   "new"   the object is not built yet     "next"  zip asks for a pair   *)
(*   "fwd"   the forward assembler runs      "bwd"   the backward one runs *)
(*   "done"  zip ended                       "error" an exception left it  *)
(*   "failed" the constructor raised                                       *)
(***************************************************************************)
\* lines 168-169 with the suffix left out: the backward fields replace the
\* forward ones
Merge_NoSuffix(X, Xr) ==
    LET step1 == ("token_ids" :> Xr["token_ids"]) @@ X
        step2 == ("tokens_characters" :> Xr["tokens_characters"]) @@ step1
    IN  ("next_token_id" :> Xr["next_token_id"]) @@ step2

\* lines 168-169: for k, v in Xr.items(): X[k + '_reverse'] = v, the keys in the
\* order line 52 inserted them
Merge(X, Xr) ==
    LET step1 == (("token_ids" \o "_reverse") :> Xr["token_ids"]) @@ X
        step2 == (("tokens_characters" \o "_reverse") :> Xr["tokens_characters"]) @@ step1
    IN  (("next_token_id" \o "_reverse") :> Xr["next_token_id"]) @@ step2

Ended(s) == pc[s] \in {"done", "error"}
Returned(s) == pc[s] \in {"yield", "done", "error"}

\* lines 151-158: the forward dataset, then the backward one; an exception of
\* the first constructor leaves the second one unbuilt
BiConstruct ==
    /\ zip_pc = "new"
    /\ \E test, shuffle_on_load \in BOOLEAN :
         \E df \in LoadDraws([NoDataset EXCEPT !.all_shards = glob, !.test = test,
                                !.shuffle_on_load = shuffle_on_load]) :
         \E db \in LoadDraws([NoDataset EXCEPT !.all_shards = glob, !.test = test,
                                !.shuffle_on_load = shuffle_on_load]) :
            LET F == Constructed(test, shuffle_on_load, FALSE, df[1], df[2])
                B == Constructed(test, shuffle_on_load, TRUE, db[1], db[2])
            IN  IF F.status = "failed"
                THEN /\ lm' = [lm EXCEPT !["forward"] = F]
                     /\ zip_pc' = "failed"
                ELSE /\ lm' = [lm EXCEPT !["forward"] = F, !["backward"] = B]
                     /\ zip_pc' = IF B.status = "failed" THEN "failed" ELSE "next"
    /\ UNCHANGED <<cfgVars, gen, pc, err, frameVars, batches, origins, pulls, merged>>

\* line 162: zip asks its first iterator, the forward assembler, for a batch
ZipNext ==
    /\ zip_pc = "next"
    /\ Len(merged) < MaxBatches
    /\ ResumeFrame("forward")
    /\ zip_pc' = "fwd"
    /\ UNCHANGED <<cfgVars, gen, lm, err, batches, origins, pulls, merged>>

\* zip_longest in place of zip: the backward assembler is asked although the
\* forward one has ended
ZipForwardReturned_Longest ==
    /\ zip_pc = "fwd"
    /\ Returned("forward")
    /\ ResumeFrame("backward")
    /\ zip_pc' = "bwd"
    /\ UNCHANGED <<cfgVars, gen, lm, err, batches, origins, pulls, merged>>

\* line 162: the forward assembler has answered; with a batch in hand zip asks
\* the backward assembler, otherwise zip ends
ZipForwardReturned ==
    /\ zip_pc = "fwd"
    /\ Returned("forward")
    /\ IF pc["forward"] = "yield"
       THEN /\ ResumeFrame("backward")
            /\ zip_pc' = "bwd"
       ELSE /\ zip_pc' = IF pc["forward"] = "done" THEN "done" ELSE "error"
            /\ UNCHANGED <<pc, frameVars>>
    /\ UNCHANGED <<cfgVars, gen, lm, err, batches, origins, pulls, merged>>

\* lines 162-170: the backward assembler has answered; with both batches the
\* loop body merges them and yields the record, otherwise zip ends
ZipBackwardReturned ==
    /\ zip_pc = "bwd"
    /\ Returned("backward")
    /\ IF pc["backward"] = "yield"
       THEN /\ merged' = Append(merged,
                            Merge(batches["forward"][Len(batches["forward"])],
                                  batches["backward"][Len(batches["backward"])]))
            /\ zip_pc' = "next"
       ELSE /\ zip_pc' = IF pc["backward"] = "done" THEN "done" ELSE "error"
            /\ UNCHANGED merged
    /\ UNCHANGED <<cfgVars, gen, lm, pc, err, frameVars, batches, origins, pulls>>

InitBi ==
    /\ batch_size \in 1..MaxBatchSize
    /\ num_steps \in 1..MaxNumSteps
    /\ use_chars = TRUE
    /\ source = [s \in Sides |-> "dataset"]
    /\ gen = [count |-> 0, done |-> FALSE]
    /\ files \in FileSystems
    /\ lm = [s \in Sides |-> NoDataset]
    /\ zip_pc = "new"
    /\ FrameInit

NextBi ==
    \/ BiConstruct
    \/ ZipNext
    \/ ZipForwardReturned
    \/ ZipBackwardReturned
    \/ \E s \in Sides : FillFromRemainder(s)
    \/ \E s \in Sides : PullFromDataset(s)
    \/ \E s \in Sides : WhileExit(s)
    \/ \E s \in Sides : EndBatch(s)

SpecBi == InitBi /\ [][NextBi]_vars


Produced(s) == Len(batches[s])

\* C8: iter_batches takes one batch from the forward and one from the backward
\* assembler per step; the k-th record is yielded only when both have produced
\* their k-th batch; once either assembler has ended no record is yielded any
\* more and zip ends at its next step, so the records number the minimum of the
\* batches the two assemblers produced.
C8_ZipShortest ==
    /\ [](/\ Len(merged) <= Produced("forward")
          /\ Len(merged) <= Produced("backward")
          /\ Produced("backward") <= Produced("forward")
          /\ Produced("forward") <= Len(merged) + 1
          /\ zip_pc \in {"done", "error"}
                => /\ Ended("forward") \/ Ended("backward")
                   /\ Len(merged) = Min(Produced("forward"), Produced("backward"))
          /\ Ended("forward") => Suspended("backward"))
    /\ [][Ended("forward") \/ Ended("backward")
            => /\ merged' = merged
               /\ zip_pc' \in {"done", "error"}
               /\ batches' = batches]_vars

\* the backward assembler ended on a step for which the forward one had produced
\* its batch, after a record had been yielded
C8_Witness ==
    /\ zip_pc = "error"
    /\ Ended("backward")
    /\ Len(merged) >= 1
    /\ Produced("forward") = Len(merged) + 1

BatchFields == {"token_ids", "tokens_characters", "next_token_id"}
ReverseFields == {"token_ids_reverse", "tokens_characters_reverse", "next_token_id_reverse"}

IsMatrix(m) == DOMAIN m = Lanes /\ \A i \in Lanes : DOMAIN m[i] = Steps

\* C9: the k-th record yielded by iter_batches has exactly the three fields of a
\* batch and the same three with _reverse appended; the unsuffixed fields are
\* those of the forward assembler's k-th batch, the _reverse fields those of the
\* backward assembler's k-th batch, and token_ids and token_ids_reverse are
\* batch_size x num_steps arrays.
C9_MergedFields ==
    \A k \in 1..Len(merged) :
        /\ DOMAIN merged[k] = BatchFields \cup ReverseFields
        /\ merged[k]["token_ids"] = batches["forward"][k]["token_ids"]
        /\ merged[k]["tokens_characters"] = batches["forward"][k]["tokens_characters"]
        /\ merged[k]["next_token_id"] = batches["forward"][k]["next_token_id"]
        /\ merged[k]["token_ids_reverse"] = batches["backward"][k]["token_ids"]
        /\ merged[k]["tokens_characters_reverse"]
              = batches["backward"][k]["tokens_characters"]
        /\ merged[k]["next_token_id_reverse"] = batches["backward"][k]["next_token_id"]
        /\ IsMatrix(merged[k]["token_ids"])
        /\ IsMatrix(merged[k]["token_ids_reverse"])

\* two records have been yielded, of two lanes and two steps, whose forward and
\* backward tokens differ
C9_Witness ==
    /\ Len(merged) >= 2
    /\ batch_size = 2 /\ num_steps = 2
    /\ merged[2]["token_ids"] # merged[2]["token_ids_reverse"]


\* C12: in non-test mode with at least one shard file, a pull from get_sentence
\* never fails: the cursor is a valid index of the loaded shard whenever it is
\* read, and no exception leaves the sequence.
C12_EndlessSentences ==
    LET D == lm["forward"]
    IN  (Len(files) >= 1 /\ D.status = "ready" /\ ~D.test) =>
            /\ D.exc = "none"
            /\ err["forward"] \notin {"IndexError", "RuntimeError", "StopIteration"}

\* the claim of C12 restricted to file systems in which no shard file is empty
C12_HoldsWithoutEmptyShards ==
    (\A f \in 1..Len(files) : files[f] # <<>>) => C12_EndlessSentences

(***************************************************************************)
(* SpecLive: _get_batch run to completion.  The generator is either the    *)
(* finite one of Spec or an endless one (get_sentence in non-test mode is  *)
(* such a generator: it cycles through its shards for ever) that repeats a *)
(* fixed cycle of sentences.  The interpreter keeps executing the frame    *)
(* and the consumer keeps asking, hence the weak fairness.                 *)
(***************************************************************************)
MaxCycle == 2

\* the sentence lengths of one cycle of an endless generator: two or more
\* sentences, none of them empty (empty sentences come from the finite generator)
Cycles == UNION {[1..n -> 1..MaxLen] : n \in 2..MaxCycle}

\* lines 24-45 with next(generator) returning the next sentence of the cycle
PullEndless(s) ==
    /\ pc[s] = "while"
    /\ source[s] = "endless"
    /\ cur_pos[s] < num_steps
    /\ NeedsPull(cur_stream[s][lane[s]])
    /\ LET k == gen.count + 1
           sent == GenSentence(k, gen.cycle[k])
       IN  FillLane(s, [none |-> FALSE, tok |-> sent.tok, chr |-> sent.chr,
                        sid |-> k, off |-> 0])
    /\ gen' = [gen EXCEPT !.count = (@ + 1) % Len(gen.cycle)]
    /\ UNCHANGED <<cfgVars, lm, no_more_data, batches, origins, pulls, zip_pc, merged>>

InitLive ==
    /\ batch_size \in 1..MaxBatchSize
    /\ num_steps \in 1..MaxNumSteps
    /\ use_chars \in BOOLEAN
    /\ \/ /\ source = [s \in Sides |-> "generator"]
          /\ gen = [count |-> 0, done |-> FALSE, cycle |-> <<>>]
       \/ /\ source = [s \in Sides |-> "endless"]
          /\ \E c \in Cycles : gen = [count |-> 0, done |-> FALSE, cycle |-> c]
    /\ files = <<>>
    /\ lm = [s \in Sides |-> NoDataset]
    /\ zip_pc = "single"
    /\ FrameInit

NextLive ==
    \/ NextBatch("forward")
    \/ FillFromRemainder("forward")
    \/ PullSentence("forward")
    \/ PullStop("forward")
    \/ PullEndless("forward")
    \/ WhileExit("forward")
    \/ EndBatch("forward")

SpecLive == InitLive /\ [][NextLive]_vars /\ WF_vars(NextLive)

\* a pull of the next batch is being served
Running == pc["forward"] \in {"while", "check"}

\* the pull of the next batch is over: a batch was yielded, the sequence ended,
\* or an exception left the frame
Completed == pc["forward"] \in {"yield", "done", "error"}

\* the generator stops after finitely many sentences, or it is endless, hands
\* out no empty sentence and keeps handing out sentences of two tokens or more
UsableSource ==
    \/ source["forward"] = "generator"
    \/ /\ \A k \in 1..Len(gen.cycle) : gen.cycle[k] >= 1
       /\ \E k \in 1..Len(gen.cycle) : gen.cycle[k] >= 2

CursorTracksBuffer(D, P) ==
    /\ D.nids = Len(D.ids)
    /\ D.i \in 0..D.nids
    /\ D.i <= Len(P)
    /\ \A k \in 1..D.i : P[Len(P) - D.i + k].tok = D.ids[k].tok

\* C15: get_sentence yields the sentences of the loaded shard in buffer order,
\* each once per load: the cursor is 0 after a load, advances by one per yield,
\* and a new shard is loaded only when the cursor has consumed every sentence.
C15_BufferOrderOncePerLoad ==
    /\ [](lm["forward"].status = "ready"
             => CursorTracksBuffer(lm["forward"], pulls["forward"]))
    /\ [][lm["forward"].status = "ready" =>
            LET D == lm["forward"]
                E == lm'["forward"]
                yielded == Len(pulls'["forward"]) = Len(pulls["forward"]) + 1
                loaded == E.loads # D.loads
            IN  /\ loaded => /\ D.i = D.nids
                             /\ Len(E.loads) = Len(D.loads) + 1
                             /\ E.i = IF yielded THEN 1 ELSE 0
                /\ (yielded /\ ~loaded) => /\ E.i = D.i + 1
                                           /\ E.ids = D.ids
                /\ ~yielded => (E.i = D.i \/ loaded)]_vars

\* a shard of two sentences was handed out in full, then the next load happened
\* and its first sentence was yielded
C15_Witness ==
    LET D == lm["forward"]
    IN  /\ D.status = "ready" /\ D.exc = "none"
        /\ Len(D.loads) >= 2
        /\ Len(files[D.loads[1]]) = 2
        /\ Len(pulls["forward"]) = 3
        /\ D.i = 1

\* the one-to-one mappings of 1..n onto itself
Bijections(n) == {p \in [1..n -> 1..n] : \A a, b \in 1..n : p[a] = p[b] => a = b}

\* sentence is the line with the same words, the first word last
WordsReversed(sentence, line) ==
    /\ Len(sentence) = Len(line)
    /\ \A j \in 1..Len(line) : sentence[j] = line[Len(line) + 1 - j]

\* C16: every sentence of a loaded shard was handed to the vocabulary adapter
\* together with the dataset's reverse flag; in reverse mode it is the line with
\* its words in reversed order, in forward mode the line itself; the shard has as
\* many sentences as lines and every sentence as many words as its line.
C16_ReverseMode ==
    LET D == lm["forward"]
    IN  (D.status = "ready" /\ D.loads # <<>>) =>
            LET lines == files[D.loads[Len(D.loads)]]
            IN  /\ Len(D.ids) = Len(lines)
                /\ \E p \in Bijections(Len(lines)) :
                      /\ ~D.shuffle_on_load => \A k \in 1..Len(lines) : p[k] = k
                      /\ \A k \in 1..Len(lines) :
                            LET h == D.ids[k].handed IN
                            /\ h.reverse = D.reverse
                            /\ Len(h.sentence) = Len(lines[p[k]])
                            /\ IF D.reverse
                               THEN WordsReversed(h.sentence, lines[p[k]])
                               ELSE h.sentence = lines[p[k]]

\* a reverse-mode dataset has loaded a shard with a line of three words and a
\* line of two, and a sentence has been pulled from it
C16_Witness ==
    LET D == lm["forward"]
    IN  /\ D.status = "ready" /\ D.reverse
        /\ \E a, b \in 1..Len(D.ids) : Len(D.ids[a].tok) = 3 /\ Len(D.ids[b].tok) = 2
        /\ pulls["forward"] # <<>>

(***************************************************************************)
(* SpecShared: two iter_batches() sequences made on one LMDataset.  The     *)
(* frame of side "forward" is the first sequence, the frame of side         *)
(* "backward" the second; the consumer resumes either of them while the     *)
(* other is suspended or over (one thread).                                 *)
(***************************************************************************)
InitShared ==
    /\ batch_size \in 1..MaxBatchSize
    /\ num_steps \in 1..MaxNumSteps
    /\ use_chars = TRUE
    /\ source = [s \in Sides |-> IF s = "forward" THEN "dataset" ELSE "shared"]
    /\ gen = [count |-> 0, done |-> FALSE]
    /\ files \in FileSystems
    /\ lm = [s \in Sides |-> NoDataset]
    /\ zip_pc = "single"
    /\ FrameInit

\* next() on one of the two sequences; the second is started only after the
\* first has run, and the consumer asks for MaxBatches batches in all
NextBatchOf(s) ==
    /\ \A o \in Sides \ {s} : pc[o] \notin {"while", "check"}
    /\ s = "backward" => pc["forward"] # "start"
    /\ Len(batches["forward"]) + Len(batches["backward"]) < MaxBatches
    /\ NextBatch(s)

NextShared ==
    \/ ConstructDataset("forward")
    \/ \E s \in Sides :
          \/ NextBatchOf(s)
          \/ FillFromRemainder(s)
          \/ PullFromDataset(s)
          \/ WhileExit(s)
          \/ EndBatch(s)

SpecShared == InitShared /\ [][NextShared]_vars

\* the number of lines of the shards loaded before the current one
RECURSIVE LinesOf(_)
LinesOf(loads) ==
    IF loads = <<>> THEN 0
    ELSE Len(files[Head(loads)]) + LinesOf(Tail(loads))

\* C19: the sequences made on one LMDataset share its cursor and shard buffer: a
\* pull by either sequence returns the sentence at the dataset's cursor and
\* advances that cursor by one, so the second sequence continues where the first
\* stopped, and across both sequences every sentence of a shard load is yielded
\* at most once.
C19_SharedCursor ==
    /\ [](LET D == lm["forward"]
          IN  D.status = "ready" =>
                 /\ lm["backward"] = NoDataset
                 /\ Len(pulls["forward"]) + Len(pulls["backward"])
                        = LinesOf(SubSeq(D.loads, 1, Len(D.loads) - 1)) + D.i)
    /\ [][\A s \in Sides :
             Len(pulls'[s]) = Len(pulls[s]) + 1 =>
                 LET D == lm["forward"]
                     E == lm'["forward"]
                 IN  /\ pulls'[s][Len(pulls'[s])].tok = E.ids[E.i].tok
                     /\ \/ E.loads = D.loads /\ E.ids = D.ids /\ E.i = D.i + 1
                        \/ E.loads # D.loads /\ D.i = D.nids /\ E.i = 1]_vars

\* the second sequence was started after the first had taken the first sentence
\* of a shard of two, and its first pull returned the second sentence
C19_Witness ==
    LET D == lm["forward"]
    IN  /\ D.status = "ready"
        /\ Len(D.loads) = 1
        /\ Len(D.ids) = 2
        /\ Len(pulls["forward"]) = 1 /\ pulls["forward"][1].tok = D.ids[1].tok
        /\ Len(pulls["backward"]) = 1 /\ pulls["backward"][1].tok = D.ids[2].tok
        /\ D.ids[1].tok # D.ids[2].tok

====
